---- MODULE Spec2Model ----
(***************************************************************************)
(* ObsiRandom (src/main.ts): an Obsidian plugin that opens a random note   *)
(* from the vault, from a recency window or from a custom directory.       *)
(*                                                                         *)
(* JavaScript strings that the code inspects (paths, directory settings)   *)
(* are sequences of one-character strings, so that trim() and startsWith() *)
(* are computed character by character.  Fixed texts that the code only    *)
(* passes along are TLA+ strings, and a template literal is the tuple of   *)
(* its pieces.  Timestamps are millisecond counts held in two limbs        *)
(* <<hi, lo>> = hi * LIMB + lo, because 365 * 86400000 does not fit the    *)
(* 32-bit integers of the model checker; JavaScript computes these values  *)
(* exactly (they are far below 2^53).                                      *)
(***************************************************************************)
EXTENDS Integers, Sequences, FiniteSets, TLC

VARIABLES
    lifecycle,   \* "constructed" | "loaded" | "failed": the plugin's onload
    settings,    \* this.settings (undefined until loadSettings assigns it)
    commands,    \* app.commands.commands: full command id -> command name
    pending,     \* onChange handlers suspended at `await saveSettings()`
    inv,         \* the locals of the command invocation being followed
    call         \* one call of a pure method: its arguments and its result

vars == <<lifecycle, settings, commands, pending, inv, call>>

Range(s) == {s[i] : i \in 1..Len(s)}

\* JavaScript's null and undefined; every value they are compared with is a record.
Null == [kind |-> "null"]
Undefined == [kind |-> "undefined"]

\* A local that has been assigned v (it is Undefined until then).
Value(v) == [kind |-> "value", value |-> v]

---------------------------------------------------------------------------
(* Bounds of the model *)

\* Notes in a vault listing handed to a pure method.
MaxNotes == 2
\* Math.random() yields k / RandomSteps for k in 0 .. RandomSteps - 1.
RandomSteps == 2
\* onChange handlers that may be suspended in saveSettings at once.
MaxPending == 1

---------------------------------------------------------------------------
(* Millisecond arithmetic on two limbs *)

LIMB == 1000 * 1000

Big(hi, lo) == <<hi + (lo \div LIMB), lo % LIMB>>
\* k * n for a small k and an n below 2^31
BigTimes(k, n) == Big(k * (n \div LIMB), k * (n % LIMB))
BigMinus(a, b) == Big(a[1] - b[1], a[2] - b[2])
BigGeq(a, b) == a[1] > b[1] \/ (a[1] = b[1] /\ a[2] >= b[2])
BigGt(a, b) == a[1] > b[1] \/ (a[1] = b[1] /\ a[2] > b[2])

---------------------------------------------------------------------------
(* Program constants *)

DirectoryNumbers == {1, 2, 3}

Key(num) ==
    CASE num = 1 -> "customDirectory1"
      [] num = 2 -> "customDirectory2"
      [] num = 3 -> "customDirectory3"

DEFAULT_SETTINGS ==
    [customDirectory1 |-> <<>>, customDirectory2 |-> <<>>, customDirectory3 |-> <<>>]

TIME_PERIODS == [WEEK |-> 7, MONTH |-> 30, YEAR |-> 365]

MILLISECONDS_PER_DAY == 24 * 60 * 60 * 1000

---------------------------------------------------------------------------
(* String.prototype.trim and String.prototype.startsWith *)

IsWhiteSpace(c) == c = " "

RECURSIVE TrimStart(_)
TrimStart(s) ==
    IF s # <<>> /\ IsWhiteSpace(Head(s)) THEN TrimStart(Tail(s)) ELSE s

RECURSIVE TrimEnd(_)
TrimEnd(s) ==
    IF s # <<>> /\ IsWhiteSpace(s[Len(s)])
    THEN TrimEnd(SubSeq(s, 1, Len(s) - 1))
    ELSE s

trim(s) == TrimEnd(TrimStart(s))

\* The truthiness of a string: it is not empty.
Truthy(s) == s # <<>>

RECURSIVE startsWith(_, _)
startsWith(s, searchString) ==
    IF searchString = <<>> THEN TRUE
    ELSE IF s = <<>> THEN FALSE
    ELSE Head(s) = Head(searchString) /\ startsWith(Tail(s), Tail(searchString))

---------------------------------------------------------------------------
(* Files of the host *)

TFile(path, basename, ctime) ==
    [kind |-> "TFile", path |-> path, basename |-> basename, ctime |-> ctime]

\* arr[i] of a JavaScript array: undefined outside 0 .. length - 1
ArrayGet(arr, i) == IF i \in 0..(Len(arr) - 1) THEN arr[i + 1] ELSE Undefined

---------------------------------------------------------------------------
(* The note selection methods of ObsiRandomPlugin; Array.prototype.filter is
   SelectSeq. *)

getAllNotes(markdownFiles) == markdownFiles

getNotesFromPastDays_exclusive(markdownFiles, now, days) ==
    LET cutoffTime == BigMinus(now, BigTimes(days, MILLISECONDS_PER_DAY))
    IN  SelectSeq(markdownFiles, LAMBDA file : BigGt(file.ctime, cutoffTime))

getNotesFromPastDays(markdownFiles, now, days) ==
    LET cutoffTime == BigMinus(now, BigTimes(days, MILLISECONDS_PER_DAY))
    IN  SelectSeq(markdownFiles, LAMBDA file : BigGeq(file.ctime, cutoffTime))

getNotesFromPastWeek(markdownFiles, now) ==
    getNotesFromPastDays(markdownFiles, now, TIME_PERIODS.WEEK)

getNotesFromPastMonth(markdownFiles, now) ==
    getNotesFromPastDays(markdownFiles, now, TIME_PERIODS.MONTH)

getNotesFromPastYear(markdownFiles, now) ==
    getNotesFromPastDays(markdownFiles, now, TIME_PERIODS.YEAR)

getNotesFromDirectory_segment(markdownFiles, directoryPath) ==
    SelectSeq(markdownFiles, LAMBDA file : startsWith(file.path, directoryPath \o <<"/">>))

getNotesFromDirectory(markdownFiles, directoryPath) ==
    SelectSeq(markdownFiles, LAMBDA file : startsWith(file.path, directoryPath))

\* random is the numerator k of Math.random() = k / RandomSteps.
getRandomNote_ceil(notes, random) ==
    IF Len(notes) = 0 THEN Null
    ELSE LET randomIndex == (random * Len(notes) + RandomSteps - 1) \div RandomSteps
         IN  ArrayGet(notes, randomIndex)

getRandomNote_noguard(notes, random) ==
    LET randomIndex == (random * Len(notes)) \div RandomSteps
    IN  ArrayGet(notes, randomIndex)

getRandomNote(notes, random) ==
    IF Len(notes) = 0 THEN Null
    ELSE LET randomIndex == (random * Len(notes)) \div RandomSteps
         IN  ArrayGet(notes, randomIndex)

---------------------------------------------------------------------------
(* Inputs: the host's files, the clock, the random source *)

\* Date.now() readings: 1,700,000,000,000 ms and the millisecond after it.
NowValues == {<<1700000, 0>>, <<1700000, 1>>}

\* Creation times at and one millisecond before the week, month and year
\* cutoffs of the first reading: 1,700,000,000,000 - 7 * 86,400,000 =
\* 1,699,395,200,000; - 30 days = 1,697,408,000,000; - 365 days =
\* 1,668,464,000,000.
NotePool ==
    { TFile(<<"P", "/", "a">>, "a", <<1699395, 200000>>),
      TFile(<<"P", "A", "/", "b">>, "b", <<1699395, 199999>>),
      TFile(<<"Q", "/", "c">>, "c", <<1697408, 0>>),
      TFile(<<"p", "/", "a">>, "a", <<1697407, 999999>>),
      TFile(<<"P">>, "P", <<1668464, 0>>),
      TFile(<<"Q", "P", "/", "d">>, "d", <<1668463, 999999>>) }

\* Listings of distinct files, in any order, of at most n files.
Listings(n) ==
    {l \in UNION {[1..k -> NotePool] : k \in 0..n} :
        \A i, j \in 1..Len(l) : i # j => l[i] # l[j]}

DayCounts == {1, 7, 30, 365}

Prefixes ==
    { <<>>, <<" ">>, <<"P">>, <<"P", "/">>, <<"P", "A">>, <<"p">>,
      <<"P", "/", "a", "b">>, <<"Q", "/", "c">> }

RandomValues == 0..(RandomSteps - 1)

---------------------------------------------------------------------------
(* One call of a selection method on drawn arguments *)

NoCall == [fn |-> "none"]

Called(fn, args) == [fn |-> fn, args |-> args, returned |-> FALSE, result |-> Undefined]

Calls ==
    {Called("getNotesFromPastDays", [markdownFiles |-> l, now |-> t, days |-> d]) :
        l \in Listings(MaxNotes), t \in NowValues, d \in DayCounts}
    \cup
    {Called(f, [markdownFiles |-> l, now |-> t]) :
        f \in {"getNotesFromPastWeek", "getNotesFromPastMonth", "getNotesFromPastYear"},
        l \in Listings(MaxNotes), t \in NowValues}
    \cup
    {Called("getNotesFromDirectory", [markdownFiles |-> l, directoryPath |-> p]) :
        l \in Listings(MaxNotes), p \in Prefixes}
    \cup
    {Called("getRandomNote", [notes |-> l, random |-> r]) :
        l \in Listings(MaxNotes), r \in RandomValues}

Return(value) == call' = [call EXCEPT !.returned = TRUE, !.result = value]

CallPending(fn) == call.fn = fn /\ ~call.returned

CallReturned(fn) == call.fn = fn /\ call.returned

---------------------------------------------------------------------------
(* The command registry of the host and the plugin's commands *)

\* addCommand registers under manifest.id + ":" + id; the manifest's id is
\* written <manifest.id> here.
BuiltInCommands ==
    [ vault  |-> [id |-> "<manifest.id>:open-random-note",
                  name |-> <<"Random note from vault">>],
      recent |-> [id |-> "<manifest.id>:open-random-recent-note",
                  name |-> <<"Random note from past 7 days">>],
      month  |-> [id |-> "<manifest.id>:open-random-month-note",
                  name |-> <<"Random note from past month">>],
      year   |-> [id |-> "<manifest.id>:open-random-year-note",
                  name |-> <<"Random note from past year">>] ]

BuiltInIds == {BuiltInCommands[k].id : k \in DOMAIN BuiltInCommands}

CustomCommandId(num) ==
    CASE num = 1 -> "<manifest.id>:open-random-custom-directory-1"
      [] num = 2 -> "<manifest.id>:open-random-custom-directory-2"
      [] num = 3 -> "<manifest.id>:open-random-custom-directory-3"

CustomCommandName(directoryPath) == <<"Random note from ", directoryPath>>

NoCommands == [id \in {} |-> <<>>]

addCommand(cmds, id, name) ==
    [x \in DOMAIN cmds \cup {id} |-> IF x = id THEN name ELSE cmds[x]]

removeCommand(cmds, id) == [x \in DOMAIN cmds \ {id} |-> cmds[x]]

RemoveCustomCommand(cmds, num) ==
    IF CustomCommandId(num) \in DOMAIN cmds
    THEN removeCommand(cmds, CustomCommandId(num))
    ELSE cmds

removeCustomCommands_all(cmds) == NoCommands

removeCustomCommands(cmds) ==
    RemoveCustomCommand(RemoveCustomCommand(RemoveCustomCommand(cmds, 1), 2), 3)

AddCustomCommand(cmds, plugin, num) ==
    LET directoryPath == plugin[Key(num)]
    IN  IF Truthy(trim(directoryPath))
        THEN addCommand(cmds, CustomCommandId(num), CustomCommandName(directoryPath))
        ELSE cmds

AddCustomCommand_notrim(cmds, plugin, num) ==
    LET directoryPath == plugin[Key(num)]
    IN  IF Truthy(directoryPath)
        THEN addCommand(cmds, CustomCommandId(num), CustomCommandName(directoryPath))
        ELSE cmds

addCustomCommands_notrim(cmds, plugin) ==
    AddCustomCommand_notrim(
        AddCustomCommand_notrim(AddCustomCommand_notrim(cmds, plugin, 1), plugin, 2),
        plugin, 3)

addCustomCommands(cmds, plugin) ==
    AddCustomCommand(AddCustomCommand(AddCustomCommand(cmds, plugin, 1), plugin, 2), plugin, 3)

updateCommands(cmds, plugin) == addCustomCommands(removeCustomCommands(cmds), plugin)

AddBuiltInCommands(cmds) ==
    LET c == BuiltInCommands
    IN  addCommand(addCommand(addCommand(addCommand(cmds,
            c.vault.id, c.vault.name), c.recent.id, c.recent.name),
            c.month.id, c.month.name), c.year.id, c.year.name)

\* Object.assign({}, DEFAULT_SETTINGS, data): data is null or an object holding
\* some of the three fields.
loadSettings(data) ==
    [k \in DOMAIN DEFAULT_SETTINGS |->
        IF data # Null /\ k \in DOMAIN data THEN data[k] ELSE DEFAULT_SETTINGS[k]]

---------------------------------------------------------------------------
(* A command invocation: the locals of openRandomNote and of its callers *)

Idle == [pc |-> "idle"]

\* pc: "awaitOpenFile" while suspended at `await ...openFile(randomNote)`,
\* "fulfilled" or "rejected" once the command's promise has settled.
\* openFile: the state of the host's openFile promise.  notices, opened and
\* console list the Notice, openFile and console.error calls of the invocation.
\* A text is the tuple of the pieces of its literal.
Invocation(command) ==
    [ pc |-> "fulfilled", command |-> command, directoryPath |-> Undefined,
      notes |-> Undefined, context |-> Undefined, randomNote |-> Undefined,
      openFile |-> "none", opened |-> <<>>, notices |-> <<>>, console |-> <<>> ]

NoNotesFound(context) == <<"No notes found ", context, "!">>
OpenedRandomNote(basename) == <<"Opened random note: ", basename>>
FailedToOpenNote(basename) == <<"Failed to open note: ", basename>>
PleaseSet(directoryNumber) ==
    <<"Please set Custom Directory ", directoryNumber, " in plugin settings first!">>

\* openRandomNote up to its await (or to its return, when it does not await).
openRandomNote_nocheck(frame, notes, context, random) ==
    LET randomNote == getRandomNote(notes, random)
        f == [frame EXCEPT !.notes = Value(notes), !.context = Value(context),
                           !.randomNote = randomNote]
    IN  IF randomNote \notin {Null, Undefined}
        THEN [f EXCEPT !.pc = "awaitOpenFile", !.openFile = "pending",
                       !.opened = Append(@, randomNote)]
        ELSE f

openRandomNote(frame, notes, context, random) ==
    IF Len(notes) = 0
    THEN [frame EXCEPT !.notes = Value(notes), !.context = Value(context),
                       !.notices = Append(@, NoNotesFound(context))]
    ELSE LET randomNote == getRandomNote(notes, random)
             f == [frame EXCEPT !.notes = Value(notes), !.context = Value(context),
                                !.randomNote = randomNote]
         IN  IF randomNote \notin {Null, Undefined}
             THEN [f EXCEPT !.pc = "awaitOpenFile", !.openFile = "pending",
                            !.opened = Append(@, randomNote)]
             ELSE f

\* openRandomNote after its await: the try block's second statement ...
openFileResolved_silent(frame) ==
    [frame EXCEPT !.pc = "fulfilled", !.openFile = "resolved"]

openFileResolved(frame) ==
    [frame EXCEPT !.pc = "fulfilled", !.openFile = "resolved",
                  !.notices = Append(@, OpenedRandomNote(frame.randomNote.basename))]

\* ... and its catch block.
openFileRejected_uncaught(frame) ==
    [frame EXCEPT !.pc = "rejected", !.openFile = "rejected"]

openFileRejected(frame) ==
    [frame EXCEPT !.pc = "fulfilled", !.openFile = "rejected",
                  !.console = Append(@, "ObsiRandom: Failed to open note:"),
                  !.notices = Append(@, FailedToOpenNote(frame.randomNote.basename))]

executeRandomNoteCommand(command, notes, context, random) ==
    openRandomNote(Invocation(command), notes, context, random)

openRandomNoteFromVault(markdownFiles, random) ==
    executeRandomNoteCommand(BuiltInCommands.vault.id,
        getAllNotes(markdownFiles), <<"in the vault">>, random)

openRandomRecentNote(markdownFiles, now, random) ==
    executeRandomNoteCommand(BuiltInCommands.recent.id,
        getNotesFromPastWeek(markdownFiles, now), <<"from the past 7 days">>, random)

openRandomNoteFromMonth(markdownFiles, now, random) ==
    executeRandomNoteCommand(BuiltInCommands.month.id,
        getNotesFromPastMonth(markdownFiles, now), <<"from the past month">>, random)

openRandomNoteFromYear(markdownFiles, now, random) ==
    executeRandomNoteCommand(BuiltInCommands.year.id,
        getNotesFromPastYear(markdownFiles, now), <<"from the past year">>, random)

DirectoryContext(directoryPath) == <<"in ", directoryPath, " directory">>

openRandomNoteFromCustomDirectory_notrim(plugin, directoryNumber, markdownFiles, random) ==
    LET directoryPath == plugin[Key(directoryNumber)]
        frame == [Invocation(CustomCommandId(directoryNumber))
                     EXCEPT !.directoryPath = Value(directoryPath)]
    IN  IF ~Truthy(directoryPath)
        THEN [frame EXCEPT !.notices = Append(@, PleaseSet(directoryNumber))]
        ELSE openRandomNote(frame, getNotesFromDirectory(markdownFiles, directoryPath),
                            DirectoryContext(directoryPath), random)

openRandomNoteFromCustomDirectory(plugin, directoryNumber, markdownFiles, random) ==
    LET directoryPath == plugin[Key(directoryNumber)]
        frame == [Invocation(CustomCommandId(directoryNumber))
                     EXCEPT !.directoryPath = Value(directoryPath)]
    IN  IF ~Truthy(trim(directoryPath))
        THEN [frame EXCEPT !.notices = Append(@, PleaseSet(directoryNumber))]
        ELSE openRandomNote(frame, getNotesFromDirectory(markdownFiles, directoryPath),
                            DirectoryContext(directoryPath), random)

---------------------------------------------------------------------------
(* The settings tab *)

\* pathParts.slice(0, i).join("/") for i in 1 .. pathParts.length - 1 is the
\* text before the i-th "/" of the path; the empty one is dropped.  The
\* result is used as the set of the dropdown's options.
getAllDirectories(files) ==
    UNION { { SubSeq(files[n].path, 1, k - 1) :
                k \in {j \in 2..Len(files[n].path) : files[n].path[j] = "/"} } :
            n \in 1..Len(files) }

---------------------------------------------------------------------------
(* The plugin as a state machine *)

\* "P/a", created exactly 7 days before the first clock reading, and "Pb" in
\* the vault's root, created a millisecond earlier.
NoteA == TFile(<<"P", "/", "a">>, "a", <<1699395, 200000>>)
NoteB == TFile(<<"P", "b">>, "Pb", <<1699395, 199999>>)

\* What getMarkdownFiles() and getAllLoadedFiles() may return.
Vaults == { <<>>, <<NoteA, NoteB>> }

\* What the text field is set to while commands are being run ...
DirValues == { <<>>, <<" ">>, <<"P">> }

\* ... and when the command registry is examined on its own.
TypedValues == DirValues \cup { <<"P", "A">>, <<" ", "P", " ">> }

\* What loadData() may resolve to.
StoredData ==
    { Null,
      [customDirectory1 |-> <<"P">>],
      [customDirectory1 |-> <<" ">>, customDirectory2 |-> <<"P">>,
       customDirectory3 |-> <<>>] }

Init ==
    /\ lifecycle = "constructed"
    /\ settings = Undefined
    /\ commands = NoCommands
    /\ pending = 0
    /\ inv = Idle
    /\ call = NoCall

onload ==
    /\ lifecycle = "constructed"
    /\ \E data \in StoredData :
          /\ settings' = loadSettings(data)
          /\ commands' = updateCommands(AddBuiltInCommands(commands), settings')
    /\ lifecycle' = "loaded"
    /\ UNCHANGED <<pending, inv, call>>

\* loadData() rejects: onload throws before it registers anything.
onloadFails ==
    /\ lifecycle = "constructed"
    /\ lifecycle' = "failed"
    /\ UNCHANGED <<settings, commands, pending, inv, call>>

\* An onChange handler up to `await this.plugin.saveSettings()`.
onChange(num, value) ==
    /\ lifecycle = "loaded"
    /\ pending < MaxPending
    /\ settings' = [settings EXCEPT ![Key(num)] = value]
    /\ pending' = pending + 1
    /\ UNCHANGED <<lifecycle, commands, inv, call>>

dropdownOnChange ==
    \E num \in DirectoryNumbers, files \in Vaults :
        \E value \in {<<>>} \cup getAllDirectories(files) : onChange(num, value)

textOnChange(values) ==
    \E num \in DirectoryNumbers, value \in values : onChange(num, value)

\* saveSettings() resolves and the handler goes on to updateCommands().
saveSettingsResolves ==
    /\ pending > 0
    /\ pending' = pending - 1
    /\ commands' = updateCommands(commands, settings)
    /\ UNCHANGED <<lifecycle, settings, inv, call>>

\* saveData() rejects: the handler ends at its await.
saveSettingsRejects ==
    /\ pending > 0
    /\ pending' = pending - 1
    /\ UNCHANGED <<lifecycle, settings, commands, inv, call>>

CanInvoke(id) == id \in DOMAIN commands /\ inv.pc # "awaitOpenFile"

invokeVault ==
    /\ CanInvoke(BuiltInCommands.vault.id)
    /\ \E markdownFiles \in Vaults, random \in RandomValues :
          inv' = openRandomNoteFromVault(markdownFiles, random)
    /\ UNCHANGED <<lifecycle, settings, commands, pending, call>>

invokeRecent ==
    /\ CanInvoke(BuiltInCommands.recent.id)
    /\ \E markdownFiles \in Vaults, now \in NowValues, random \in RandomValues :
          inv' = openRandomRecentNote(markdownFiles, now, random)
    /\ UNCHANGED <<lifecycle, settings, commands, pending, call>>

invokeMonth ==
    /\ CanInvoke(BuiltInCommands.month.id)
    /\ \E markdownFiles \in Vaults, now \in NowValues, random \in RandomValues :
          inv' = openRandomNoteFromMonth(markdownFiles, now, random)
    /\ UNCHANGED <<lifecycle, settings, commands, pending, call>>

invokeYear ==
    /\ CanInvoke(BuiltInCommands.year.id)
    /\ \E markdownFiles \in Vaults, now \in NowValues, random \in RandomValues :
          inv' = openRandomNoteFromYear(markdownFiles, now, random)
    /\ UNCHANGED <<lifecycle, settings, commands, pending, call>>

invokeCustomDirectory ==
    \E num \in DirectoryNumbers :
        /\ CanInvoke(CustomCommandId(num))
        /\ \E markdownFiles \in Vaults, random \in RandomValues :
              inv' = openRandomNoteFromCustomDirectory(settings, num, markdownFiles, random)
        /\ UNCHANGED <<lifecycle, settings, commands, pending, call>>

openFileResolves ==
    /\ inv.pc = "awaitOpenFile"
    /\ inv' = openFileResolved(inv)
    /\ UNCHANGED <<lifecycle, settings, commands, pending, call>>

openFileRejects ==
    /\ inv.pc = "awaitOpenFile"
    /\ inv' = openFileRejected(inv)
    /\ UNCHANGED <<lifecycle, settings, commands, pending, call>>

Next ==
    \/ onload
    \/ onloadFails
    \/ dropdownOnChange
    \/ textOnChange(DirValues)
    \/ saveSettingsResolves
    \/ saveSettingsRejects
    \/ invokeVault
    \/ invokeRecent
    \/ invokeMonth
    \/ invokeYear
    \/ invokeCustomDirectory
    \/ openFileResolves
    \/ openFileRejects

Spec == Init /\ [][Next]_vars

\* The registry on its own.  No invocation step writes lifecycle, settings,
\* commands or pending, so these are the plugin's behaviours seen through
\* those four variables, with more values typed into the text field.
RegistryNext ==
    \/ onload
    \/ onloadFails
    \/ dropdownOnChange
    \/ textOnChange(TypedValues)
    \/ saveSettingsResolves
    \/ saveSettingsRejects

RegistrySpec == Init /\ [][RegistryNext]_vars

---------------------------------------------------------------------------
(* The selection methods on their own *)

MethodInit ==
    /\ lifecycle = "constructed"
    /\ settings = Undefined
    /\ commands = NoCommands
    /\ pending = 0
    /\ inv = Idle
    /\ call \in Calls

Unchanged == UNCHANGED <<lifecycle, settings, commands, pending, inv>>

CallGetNotesFromPastDays ==
    /\ CallPending("getNotesFromPastDays")
    /\ Return(getNotesFromPastDays(call.args.markdownFiles, call.args.now, call.args.days))
    /\ Unchanged

CallGetNotesFromPastWeek ==
    /\ CallPending("getNotesFromPastWeek")
    /\ Return(getNotesFromPastWeek(call.args.markdownFiles, call.args.now))
    /\ Unchanged

CallGetNotesFromPastMonth ==
    /\ CallPending("getNotesFromPastMonth")
    /\ Return(getNotesFromPastMonth(call.args.markdownFiles, call.args.now))
    /\ Unchanged

CallGetNotesFromPastYear ==
    /\ CallPending("getNotesFromPastYear")
    /\ Return(getNotesFromPastYear(call.args.markdownFiles, call.args.now))
    /\ Unchanged

CallGetNotesFromDirectory ==
    /\ CallPending("getNotesFromDirectory")
    /\ Return(getNotesFromDirectory(call.args.markdownFiles, call.args.directoryPath))
    /\ Unchanged

CallGetRandomNote ==
    /\ CallPending("getRandomNote")
    /\ Return(getRandomNote(call.args.notes, call.args.random))
    /\ Unchanged

MethodNext ==
    \/ CallGetNotesFromPastDays
    \/ CallGetNotesFromPastWeek
    \/ CallGetNotesFromPastMonth
    \/ CallGetNotesFromPastYear
    \/ CallGetNotesFromDirectory
    \/ CallGetRandomNote

MethodSpec == MethodInit /\ [][MethodNext]_vars

---------------------------------------------------------------------------
(* Properties *)

\* The listing `result` holds exactly the files of `files` in `wanted`, once each.
ExactlyThose(result, files, wanted) ==
    /\ Range(result) = Range(files) \cap wanted
    /\ Len(result) = Cardinality(Range(result))

\* C1: for a non-empty list, getRandomNote returns one of the list's
\* elements, never null or undefined.
C1_PickIsMember ==
    (CallReturned("getRandomNote") /\ Len(call.args.notes) > 0) =>
        /\ \E i \in 1..Len(call.args.notes) : call.result = call.args.notes[i]
        /\ call.result \notin {Null, Undefined}

\* The last file of a two-file list has been picked.
C1_Witness ==
    /\ CallReturned("getRandomNote")
    /\ Len(call.args.notes) = 2
    /\ call.result = call.args.notes[2]

\* The file was created no more than `days` days of 86,400,000 ms
\* (86 * 10^6 + 400,000) before `now`: ctime + days * 86,400,000 >= now.
CreatedWithin(file, now, days) ==
    LET window == Big(86 * days, 400000 * days)
    IN  BigGeq(Big(file.ctime[1] + window[1], file.ctime[2] + window[2]), now)

RecentFiles(now, days) == {file \in NotePool : CreatedWithin(file, now, days)}

\* C3: getNotesFromPastDays(days) returns exactly the files created at or
\* after now - days * 86,400,000 ms, the cutoff itself included; the week,
\* month and year methods are the cases days = 7, 30 and 365.
C3_PastDaysExact ==
    /\ CallReturned("getNotesFromPastDays") =>
          ExactlyThose(call.result, call.args.markdownFiles,
                       RecentFiles(call.args.now, call.args.days))
    /\ CallReturned("getNotesFromPastWeek") =>
          ExactlyThose(call.result, call.args.markdownFiles, RecentFiles(call.args.now, 7))
    /\ CallReturned("getNotesFromPastMonth") =>
          ExactlyThose(call.result, call.args.markdownFiles, RecentFiles(call.args.now, 30))
    /\ CallReturned("getNotesFromPastYear") =>
          ExactlyThose(call.result, call.args.markdownFiles, RecentFiles(call.args.now, 365))

\* At 1,700,000,000,000 ms, of a file created at 1,699,395,200,000 ms (the
\* 7-day cutoff) and one created a millisecond earlier, the first is returned.
C3_Witness ==
    /\ CallReturned("getNotesFromPastDays")
    /\ call.args.days = 7
    /\ call.args.now = <<1700000, 0>>
    /\ {f.ctime : f \in Range(call.args.markdownFiles)} =
          {<<1699395, 200000>>, <<1699395, 199999>>}
    /\ Len(call.result) = 1
    /\ call.result[1].ctime = <<1699395, 200000>>

\* prefix is, character for character, the beginning of path.
IsLiteralPrefix(prefix, path) ==
    /\ Len(prefix) <= Len(path)
    /\ \A i \in 1..Len(prefix) : path[i] = prefix[i]

\* C4: getNotesFromDirectory(prefix) returns exactly the files whose path
\* begins with prefix as a literal character prefix; prefix "P" selects "P/a"
\* and "PA/b" alike.
C4_LiteralPrefix ==
    CallReturned("getNotesFromDirectory") =>
        /\ ExactlyThose(call.result, call.args.markdownFiles,
               {file \in NotePool : IsLiteralPrefix(call.args.directoryPath, file.path)})
        /\ call.args.directoryPath = <<"P">> =>
               \A file \in Range(call.args.markdownFiles) :
                   file.path \in {<<"P", "/", "a">>, <<"P", "A", "/", "b">>} =>
                       file \in Range(call.result)

\* Prefix "P" on a vault of "P/a" and "PA/b" has returned both.
C4_Witness ==
    /\ CallReturned("getNotesFromDirectory")
    /\ call.args.directoryPath = <<"P">>
    /\ {f.path : f \in Range(call.args.markdownFiles)} =
          {<<"P", "/", "a">>, <<"P", "A", "/", "b">>}
    /\ Len(call.result) = 2

\* C8: getRandomNote of an empty list returns null.
C8_EmptyIsNull ==
    (CallReturned("getRandomNote") /\ call.args.notes = <<>>) => call.result = Null

C8_Witness ==
    /\ CallReturned("getRandomNote")
    /\ call.args.notes = <<>>
    /\ call.result = Null

\* For each slot the custom command is registered exactly when the slot's
\* field is non-empty after trimming, under a name built from the field.
CommandsMatchSettings ==
    \A num \in DirectoryNumbers :
        LET id == CustomCommandId(num)
            directoryPath == settings[Key(num)]
        IN  /\ (id \in DOMAIN commands) <=> (trim(directoryPath) # <<>>)
            /\ id \in DOMAIN commands => commands[id] = CustomCommandName(directoryPath)

\* C2 as stated: after onload the registered custom commands match the
\* settings in every reachable state.
C2_MatchInEveryState == lifecycle = "loaded" => CommandsMatchSettings

\* C2 as amended: every updateCommands call (in onload, and in an onChange
\* handler once its saveSettings has resolved) leaves the custom commands
\* matching the settings, and they go on matching until a settings field is
\* next assigned.
C2_MatchAfterUpdate ==
    [][ /\ (onload \/ saveSettingsResolves) => CommandsMatchSettings'
        /\ (lifecycle = "loaded" /\ CommandsMatchSettings /\ settings' = settings)
              => CommandsMatchSettings' ]_vars

\* After edits: slot 1 renamed to "PA" and registered under that name, slot 2
\* whitespace-only and not registered, no handler in flight.
C2_Witness ==
    /\ lifecycle = "loaded"
    /\ pending = 0
    /\ settings.customDirectory1 = <<"P", "A">>
    /\ settings.customDirectory2 = <<" ">>
    /\ CustomCommandId(1) \in DOMAIN commands
    /\ commands[CustomCommandId(1)] = <<"Random note from ", <<"P", "A">>>>
    /\ CustomCommandId(2) \notin DOMAIN commands
    /\ CommandsMatchSettings

\* C9: once loaded, the four built-in commands stay registered under their
\* names, whatever is edited and however often updateCommands runs.
C9_BuiltInsStay ==
    lifecycle = "loaded" =>
        \A k \in DOMAIN BuiltInCommands :
            /\ BuiltInCommands[k].id \in DOMAIN commands
            /\ commands[BuiltInCommands[k].id] = BuiltInCommands[k].name

\* updateCommands has run after edits: custom command 2 is registered under
\* "PA", custom command 1 is not registered, and the built-ins are there.
C9_Witness ==
    /\ lifecycle = "loaded"
    /\ pending = 0
    /\ CustomCommandId(1) \notin DOMAIN commands
    /\ CustomCommandId(2) \in DOMAIN commands
    /\ commands[CustomCommandId(2)] = <<"Random note from ", <<"P", "A">>>>
    /\ BuiltInIds \subseteq DOMAIN commands

IsCustomInvocation(num) == inv.pc # "idle" /\ inv.command = CustomCommandId(num)

\* C6: a custom-directory command that finds its field empty or whitespace-only
\* emits "Please set Custom Directory n ..." and returns: no listing, no pick,
\* no openFile.
C6_UnsetDirectory ==
    \A num \in DirectoryNumbers :
        (IsCustomInvocation(num) /\ trim(inv.directoryPath.value) = <<>>) =>
            /\ inv.pc = "fulfilled"
            /\ inv.notices = <<PleaseSet(num)>>
            /\ inv.notes = Undefined
            /\ inv.randomNote = Undefined
            /\ inv.openFile = "none"
            /\ inv.opened = <<>>

\* Custom command 1, still registered, has run on a whitespace-only field.
C6_Witness ==
    /\ IsCustomInvocation(1)
    /\ inv.directoryPath.value = <<" ">>
    /\ inv.pc = "fulfilled"

\* The context each command supplies.
ContextOf(frame) ==
    CASE frame.command = BuiltInCommands.vault.id -> <<"in the vault">>
      [] frame.command = BuiltInCommands.recent.id -> <<"from the past 7 days">>
      [] frame.command = BuiltInCommands.month.id -> <<"from the past month">>
      [] frame.command = BuiltInCommands.year.id -> <<"from the past year">>
      [] OTHER -> <<"in ", frame.directoryPath.value, " directory">>

HasNoCandidates == inv.pc # "idle" /\ inv.notes # Undefined /\ Len(inv.notes.value) = 0

\* C7: with an empty candidate list the command emits "No notes found
\* <context>!" with its context verbatim and never calls openFile.
C7_NoNotesFound ==
    HasNoCandidates =>
        /\ inv.pc = "fulfilled"
        /\ inv.context = Value(ContextOf(inv))
        /\ inv.notices = <<<<"No notes found ", ContextOf(inv), "!">>>>
        /\ inv.openFile = "none"
        /\ inv.opened = <<>>

\* The week command has found nothing.
C7_Witness ==
    /\ HasNoCandidates
    /\ inv.command = BuiltInCommands.recent.id
    /\ inv.notices = <<<<"No notes found ", <<"from the past 7 days">>, "!">>>>

\* C5: when openFile rejects, openRandomNote catches it, emits "Failed to open
\* note: <basename>" and completes: its promise is fulfilled, no success notice,
\* no second openFile call.
C5_OpenFailureCaught ==
    (inv.pc # "idle" /\ inv.openFile = "rejected") =>
        /\ inv.pc = "fulfilled"
        /\ inv.notices = <<<<"Failed to open note: ", inv.randomNote.basename>>>>
        /\ inv.opened = <<inv.randomNote>>
        /\ Len(inv.console) = 1

C5_Witness ==
    /\ inv.pc = "fulfilled"
    /\ inv.openFile = "rejected"
    /\ inv.randomNote = NoteB

NoticeKinds ==
    { "Please set Custom Directory ", "No notes found ",
      "Opened random note: ", "Failed to open note: " }

\* C10: an invocation that has completed has emitted exactly one notice, of
\* one of the four kinds, and called openFile at most once; "Opened random
\* note: X" is emitted only once openFile(X) has resolved.
C10_OneNotice ==
    /\ inv.pc = "fulfilled" =>
          /\ Len(inv.notices) = 1
          /\ inv.notices[1][1] \in NoticeKinds
          /\ Len(inv.opened) <= 1
          /\ inv.notices[1][1] = "Opened random note: " =>
                /\ inv.openFile = "resolved"
                /\ inv.opened = <<inv.randomNote>>
                /\ inv.notices[1] = OpenedRandomNote(inv.randomNote.basename)
    /\ inv.pc = "awaitOpenFile" =>
          /\ inv.notices = <<>>
          /\ Len(inv.opened) = 1
    /\ inv.pc \in {"idle", "awaitOpenFile", "fulfilled"}

\* A custom-directory command has opened a note.
C10_Witness ==
    /\ IsCustomInvocation(2)
    /\ inv.pc = "fulfilled"
    /\ inv.notices = <<<<"Opened random note: ", "a">>>>

====
